---- MODULE Spec2Model ----
(***************************************************************************)
(* A model of the dht-crawler node: the server-side query handler           *)
(* (src/src/dht/handler.rs), the bootstrap of the routing table             *)
(* (src/src/dht/mod.rs) and the client-side request path of the UDP peer    *)
(* (src/src/peer/peer.rs).                                                   *)
(*                                                                           *)
(* The routing table (module routing), the transaction map and its two      *)
(* futures (peer::inbound, peer::response) are used by these files but are  *)
(* not part of the sources at hand; they are modelled from the              *)
(* specification, sections 4.3 to 4.5.                                       *)
(*                                                                           *)
(* Four specifications share the module:                                     *)
(*   Spec           the request-handling loop, Dht::handle_requests          *)
(*   SpecPeer       Peer::request against the receive side of the socket     *)
(*   SpecBootstrap  Dht::bootstrap_routing_table over join_all               *)
(*   SpecLocks      the threads of the runtime taking the three mutexes      *)
(***************************************************************************)
EXTENDS Integers, Sequences, FiniteSets, TLC

VARIABLES
    \* ---- Dht (src/src/dht/mod.rs:17-23) and the handler loop
    routing_table,   \* Arc<Mutex<RoutingTable>>
    torrents,        \* Arc<Mutex<HashMap<NodeID, Vec<SocketAddrV4>>>>: the peer store
    now,             \* the clock read by the mark_* methods of Node, in rotation periods
    handler_pc,      \* position of the handle_requests closure: idle, pending, replied,
                     \* failed (an error on its way to or_else), stopped
    request,         \* the (Request, SocketAddr) item the stream produced, None when idle
    reply,           \* the Message handed to send_transport.send, None before it exists
    held,            \* the token the callers keep from the get_peers replies they saw
    changed,         \* history: handle_request changed a store for the item at hand
    \* ---- Peer (src/src/peer/peer.rs:23-31) and the remote side of its socket
    transactions,    \* Arc<Mutex<TransactionMap>>
    req_pc,          \* position of each Peer::request call
    req_tid,         \* transaction id build_request drew for each call
    to_remote,       \* request datagrams on the wire
    from_remote,     \* response datagrams on the wire
    dropped,         \* responses the receive side dropped: id absent from the map
    \* ---- Dht::bootstrap_routing_table
    ping_state,      \* each seed's ping future
    ping_id,         \* the NodeID each answered ping carries
    bootstrap,       \* the join_all future: pending, ok, err
    \* ---- the three mutexes and the threads that take them
    lock_owner,      \* the thread that holds each Mutex, 0 when it is free
    th_op,           \* what each thread is running, "none" between two runs
    th_at            \* the step of its run a thread is about to take

handler_vars == <<routing_table, torrents, now, handler_pc, request, reply, held, changed>>
peer_vars == <<transactions, req_pc, req_tid, to_remote, from_remote, dropped>>
bootstrap_vars == <<ping_state, ping_id, bootstrap>>
lock_vars == <<lock_owner, th_op, th_at>>
vars == <<handler_vars, peer_vars, bootstrap_vars, lock_vars>>

(***************************************************************************)
(* Bounds of the model.                                                      *)
(***************************************************************************)
\* Bucket capacity. The specification fixes K = 8; the model scales it down
\* with the identifier space so that a bucket can fill.
K == 1
\* Number of token-secret rotations explored.
MaxRotations == 2
\* Total number of addresses the peer store may hold.
MaxPeers == 2
\* Number of concurrent Peer::request calls.
NumRequests == 2
\* Number of seed addresses given to bootstrap_routing_table.
NumSeeds == 3
NumThreads == 2

\* The identifier space (NodeID and info_hash share it), scaled down from 160 bits.
NodeIds == 0 .. 3
\* info_hash values queried and announced.
InfoHashes == {1, 2}
\* The remote nodes that send queries: the id each claims, the origin address
\* (IPv4 address, UDP source port) of its datagrams and the transaction id it uses.
Callers ==
    {[id |-> 2, from |-> <<1, 1>>, transaction_id |-> 1],
     [id |-> 3, from |-> <<1, 2>>, transaction_id |-> 2]}
\* The port field of an announce_peer: absent, or a port.
AnnouncePorts == {<<>>, <<2>>}
\* Targets of find_node.
Targets == {1, 3}
\* Transaction ids (u16 in the code).
TxIds == {1, 2}
\* SocketAddr::V4 and SocketAddr::V6; one of the callers is also reached over
\* IPv6.
Families == {"v4", "v6"}
FamiliesOf(c) == IF c.id = 3 THEN Families ELSE {"v4"}

None == <<>>
Some(x) == <<x>>

(***************************************************************************)
(* NodeID: XOR metric.                                                       *)
(***************************************************************************)
RECURSIVE Xor(_, _)
Xor(a, b) ==
    IF a = 0 THEN b
    ELSE IF b = 0 THEN a
    ELSE (((a % 2) + (b % 2)) % 2) + 2 * Xor(a \div 2, b \div 2)

distance(a, b) == Xor(a, b)

(***************************************************************************)
(* Node and RoutingTable (module routing), after the specification 3, 4.3.  *)
(***************************************************************************)
\* Node::new(id, address): no contact recorded yet.
NewNode(id, addr) ==
    [id |-> id, address |-> addr,
     last_successful_request |-> None,
     last_request_received |-> None,
     state |-> "questionable"]

\* Node::mark_successful_request: a request of ours the node answered.
mark_successful_request(node) ==
    [node EXCEPT !.last_successful_request = Some(now),
                 !.state = IF @ = "questionable" THEN "good" ELSE @]

\* Node::mark_successful_request_from: a request the node sent us.
mark_successful_request_from(node) ==
    [node EXCEPT !.last_request_received = Some(now),
                 !.state = IF @ = "questionable" THEN "good" ELSE @]

\* RoutingTable::new(id): one bucket over the whole identifier space.
NewRoutingTable(id) ==
    [local_id |-> id,
     buckets |-> <<[lo |-> 0, hi |-> 3, nodes |-> <<>>]>>,
     token_secret |-> 1,
     token_secret_previous |-> 0]

RECURSIVE Flatten(_)
Flatten(buckets) ==
    IF buckets = <<>> THEN <<>>
    ELSE Head(buckets).nodes \o Flatten(Tail(buckets))

\* Every node of the table, bucket after bucket.
AllNodes(rt) == Flatten(rt.buckets)

NodeSet(rt) == {AllNodes(rt)[i] : i \in DOMAIN AllNodes(rt)}

\* RoutingTable::len
RoutingLen(rt) == Len(AllNodes(rt))

HasNode(rt, id) == \E n \in NodeSet(rt) : n.id = id

NodeOf(rt, id) == CHOOSE n \in NodeSet(rt) : n.id = id

BucketOf(rt, id) ==
    CHOOSE i \in DOMAIN rt.buckets : rt.buckets[i].lo <= id /\ id <= rt.buckets[i].hi

\* The bucket that covers the local id may be split while it spans two ids or more.
Splittable(rt, i) ==
    /\ rt.buckets[i].lo <= rt.local_id
    /\ rt.local_id <= rt.buckets[i].hi
    /\ rt.buckets[i].lo < rt.buckets[i].hi

\* Split bucket i in place into its two halves, the nodes keeping their order.
SplitBucket(rt, i) ==
    LET b == rt.buckets[i]
        mid == (b.lo + b.hi + 1) \div 2
        lower == [lo |-> b.lo, hi |-> mid - 1,
                  nodes |-> SelectSeq(b.nodes, LAMBDA n : n.id < mid)]
        upper == [lo |-> mid, hi |-> b.hi,
                  nodes |-> SelectSeq(b.nodes, LAMBDA n : n.id >= mid)]
    IN [rt EXCEPT !.buckets =
            SubSeq(@, 1, i - 1) \o <<lower, upper>> \o SubSeq(@, i + 1, Len(@))]

\* First position of a bad node in a bucket, 0 when there is none.
FirstBad(nodes) ==
    IF \E j \in DOMAIN nodes : nodes[j].state = "bad"
    THEN CHOOSE j \in DOMAIN nodes :
            /\ nodes[j].state = "bad"
            /\ \A k \in 1 .. j - 1 : nodes[k].state # "bad"
    ELSE 0

\* RoutingTable::get_or_add(id, addr): the table afterwards and whether the node
\* is in it (ok = FALSE is ErrorKind::BucketFull).
RECURSIVE get_or_add(_, _, _)
get_or_add(rt, id, addr) ==
    IF HasNode(rt, id) THEN [ok |-> TRUE, rt |-> rt]
    ELSE
        LET i == BucketOf(rt, id)
            b == rt.buckets[i]
        IN  IF Len(b.nodes) < K
            THEN [ok |-> TRUE,
                  rt |-> [rt EXCEPT !.buckets[i].nodes = Append(@, NewNode(id, addr))]]
            ELSE IF Splittable(rt, i)
            THEN get_or_add(SplitBucket(rt, i), id, addr)
            ELSE IF FirstBad(b.nodes) # 0
            THEN [ok |-> TRUE,
                  rt |-> [rt EXCEPT !.buckets[i].nodes[FirstBad(b.nodes)] =
                                        NewNode(id, addr)]]
            ELSE [ok |-> FALSE, rt |-> rt]

\* Replace the entry of node.id by node.
PutNode(rt, node) ==
    [rt EXCEPT !.buckets =
        [i \in DOMAIN @ |->
            [@[i] EXCEPT !.nodes =
                [j \in DOMAIN @ |-> IF @[j].id = node.id THEN node ELSE @[j]]]]]

\* RoutingTable::add_node(node): get_or_add, then the node's fields as given.
add_node(rt, node) ==
    LET r == get_or_add(rt, node.id, node.address)
    IN  IF r.ok /\ ~HasNode(rt, node.id) THEN PutNode(r.rt, node) ELSE r.rt

\* The n nodes of a set closest to target by XOR distance, closest first.
RECURSIVE Closest(_, _, _)
Closest(nodes, target, n) ==
    IF n = 0 \/ nodes = {} THEN <<>>
    ELSE LET best == CHOOSE x \in nodes :
                        \A y \in nodes : distance(x.id, target) <= distance(y.id, target)
         IN  <<best>> \o Closest(nodes \ {best}, target, n - 1)

\* RoutingTable::find_nodes(target): always the K closest.
find_nodes(rt, target) == Closest(NodeSet(rt), target, K)

\* RoutingTable::find_node(target): the exact node, or the K closest.
find_node(rt, target) ==
    IF HasNode(rt, target)
    THEN [kind |-> "Node", nodes |-> <<NodeOf(rt, target)>>]
    ELSE [kind |-> "Nodes", nodes |-> find_nodes(rt, target)]

\* The 160-bit hash H(secret || addr_bytes), taken as collision free.
Hash(secret, addr) == <<secret, addr[1], addr[2]>>

\* A token of twenty zero bytes: the hash of nothing the node ever hashes.
ZeroToken == <<0, 0, 0>>

\* RoutingTable::generate_token(addr)
generate_token(rt, addr) == Hash(rt.token_secret, addr)

\* RoutingTable::verify_token(token, addr)
verify_token(rt, token, addr) ==
    \/ token = Hash(rt.token_secret, addr)
    \/ token = Hash(rt.token_secret_previous, addr)

\* The rotation of the token secret: the current one is kept as the previous one.
rotate_secret(rt) ==
    [rt EXCEPT !.token_secret = @ + 1, !.token_secret_previous = rt.token_secret]

(***************************************************************************)
(* The query handler, src/src/dht/handler.rs.  Each handler is given the    *)
(* routing table and the peer store as it finds them under their locks and  *)
(* yields its Result<Response> with the two stores as it leaves them.       *)
(***************************************************************************)
Ok(response) == [ok |-> TRUE, response |-> response]
Err(kind) == [ok |-> FALSE, error |-> kind]

OnlyId(id) == [type |-> "OnlyId", id |-> id]
NextHop(id, token, nodes) == [type |-> "NextHop", id |-> id, token |-> token, nodes |-> nodes]
GetPeers(id, token, peers) == [type |-> "GetPeers", id |-> id, token |-> token, peers |-> peers]

\* record_request with the read_only test lost: the caller is always recorded.
record_request_always(rt, id, from, read_only) ==
    LET r == get_or_add(rt, id, from)
    IN  [ok |-> TRUE,
         rt |-> IF r.ok
                THEN PutNode(r.rt, mark_successful_request_from(NodeOf(r.rt, id)))
                ELSE r.rt]

\* record_request that hands the failure of get_or_add on to the handler.
record_request_strict(rt, id, from, read_only) ==
    IF ~read_only
    THEN LET r == get_or_add(rt, id, from)
         IN  IF r.ok
             THEN [ok |-> TRUE,
                   rt |-> PutNode(r.rt, mark_successful_request_from(NodeOf(r.rt, id)))]
             ELSE [ok |-> FALSE, error |-> "BucketFull", rt |-> r.rt]
    ELSE [ok |-> TRUE, rt |-> rt]

\* record_request: get_or_add, and on success mark_successful_request_from on the
\* node it returns.  The Result of get_or_add is dropped: Ok(()) in every case.
record_request(rt, id, from, read_only) ==
    IF ~read_only
    THEN LET r == get_or_add(rt, id, from)
         IN  [ok |-> TRUE,
              rt |-> IF r.ok
                     THEN PutNode(r.rt, mark_successful_request_from(NodeOf(r.rt, id)))
                     ELSE r.rt]
    ELSE [ok |-> TRUE, rt |-> rt]

\* The ? after record_request(..): the handler goes on to out when the call
\* returned Ok, and returns its error otherwise.
Try(rec, tor, out) ==
    IF rec.ok THEN out
    ELSE [result |-> Err(rec.error), rt |-> rec.rt, torrents |-> tor]

handle_ping(rt, tor, from, id, read_only) ==
    LET rec == record_request(rt, id, from, read_only)
    IN  Try(rec, tor,
            [result |-> Ok(OnlyId(rt.local_id)), rt |-> rec.rt, torrents |-> tor])

\* handle_find_node that looks the target up before it records the caller.
handle_find_node_lookup_first(rt, tor, from, id, target, read_only) ==
    LET rec == record_request(rt, id, from, read_only)
        nodes == find_node(rt, target).nodes
    IN  Try(rec, tor,
            [result |-> Ok(NextHop(rt.local_id, None, nodes)),
             rt |-> rec.rt, torrents |-> tor])

handle_find_node(rt, tor, from, id, target, read_only) ==
    LET rec == record_request(rt, id, from, read_only)
        nodes == find_node(rec.rt, target).nodes
    IN  Try(rec, tor,
            [result |-> Ok(NextHop(rt.local_id, None, nodes)),
             rt |-> rec.rt, torrents |-> tor])

\* handle_get_peers that never looks into the peer store.
handle_get_peers_nodes_only(rt, tor, from, id, info_hash, read_only) ==
    LET rt1 == record_request(rt, id, from, read_only).rt
        token == Some(generate_token(rt1, from))
    IN  [result |-> Ok(NextHop(rt.local_id, token, find_nodes(rt1, info_hash))),
         rt |-> rt1, torrents |-> tor]

\* handle_get_peers that replies without a token.
handle_get_peers_without_token(rt, tor, from, id, info_hash, read_only) ==
    LET rt1 == record_request(rt, id, from, read_only).rt
    IN  IF info_hash \in DOMAIN tor
        THEN [result |-> Ok(GetPeers(rt.local_id, None, tor[info_hash])),
              rt |-> rt1, torrents |-> tor]
        ELSE [result |-> Ok(NextHop(rt.local_id, None, find_nodes(rt1, info_hash))),
              rt |-> rt1, torrents |-> tor]

handle_get_peers(rt, tor, from, id, info_hash, read_only) ==
    LET rec == record_request(rt, id, from, read_only)
        token == Some(generate_token(rec.rt, from))
    IN  Try(rec, tor,
            IF info_hash \in DOMAIN tor
            THEN [result |-> Ok(GetPeers(rt.local_id, token, tor[info_hash])),
                  rt |-> rec.rt, torrents |-> tor]
            ELSE [result |-> Ok(NextHop(rt.local_id, token, find_nodes(rec.rt, info_hash))),
                  rt |-> rec.rt, torrents |-> tor])

\* The new peer put in front of the list.
PushPeerFront(tor, info_hash, addr) ==
    [h \in DOMAIN tor \cup {info_hash} |->
        IF h = info_hash
        THEN (IF h \in DOMAIN tor THEN <<addr>> \o tor[h] ELSE <<addr>>)
        ELSE tor[h]]

\* The push done twice.
PushPeerTwice(tor, info_hash, addr) ==
    [h \in DOMAIN tor \cup {info_hash} |->
        IF h = info_hash
        THEN (IF h \in DOMAIN tor THEN tor[h] \o <<addr, addr>> ELSE <<addr, addr>>)
        ELSE tor[h]]

\* torrents.entry(info_hash).or_insert_with(Vec::new).push(addr)
PushPeer(tor, info_hash, addr) ==
    [h \in DOMAIN tor \cup {info_hash} |->
        IF h = info_hash
        THEN (IF h \in DOMAIN tor THEN Append(tor[h], addr) ELSE <<addr>>)
        ELSE tor[h]]

\* The rest of handle_announce_peer once the token is accepted and the address
\* chosen; used by the variants of handle_announce_peer below.
AnnounceAccepted(rt, tor, from_now, id, info_hash, read_only) ==
    LET rec == record_request(rt, id, from_now, read_only)
    IN  Try(rec, tor,
            [result |-> Ok(OnlyId(rt.local_id)),
             rt |-> rec.rt,
             torrents |-> PushPeer(tor, info_hash, from_now)])

\* handle_announce_peer without the verify_token test.
handle_announce_peer_unverified(rt, tor, from, id, implied_port, port, info_hash, token, read_only) ==
    IF ~implied_port /\ port = None
    THEN [result |-> Err("InsufficientAddress"), rt |-> rt, torrents |-> tor]
    ELSE AnnounceAccepted(rt, tor, IF implied_port THEN from ELSE <<from[1], port[1]>>,
                          id, info_hash, read_only)

\* handle_announce_peer that checks the token's secret but not the address it
\* was issued to.
handle_announce_peer_any_origin(rt, tor, from, id, implied_port, port, info_hash, token, read_only) ==
    IF token[1] \notin {rt.token_secret, rt.token_secret_previous}
    THEN [result |-> Err("InvalidToken"), rt |-> rt, torrents |-> tor]
    ELSE IF ~implied_port /\ port = None
    THEN [result |-> Err("InsufficientAddress"), rt |-> rt, torrents |-> tor]
    ELSE AnnounceAccepted(rt, tor, IF implied_port THEN from ELSE <<from[1], port[1]>>,
                          id, info_hash, read_only)

\* handle_announce_peer that prefers the port field to implied_port.
handle_announce_peer_port_first(rt, tor, from, id, implied_port, port, info_hash, token, read_only) ==
    IF ~verify_token(rt, token, from)
    THEN [result |-> Err("InvalidToken"), rt |-> rt, torrents |-> tor]
    ELSE IF port # None
    THEN AnnounceAccepted(rt, tor, <<from[1], port[1]>>, id, info_hash, read_only)
    ELSE IF implied_port
    THEN AnnounceAccepted(rt, tor, from, id, info_hash, read_only)
    ELSE [result |-> Err("InsufficientAddress"), rt |-> rt, torrents |-> tor]

handle_announce_peer(rt, tor, from, id, implied_port, port, info_hash, token, read_only) ==
    IF ~verify_token(rt, token, from)
    THEN [result |-> Err("InvalidToken"), rt |-> rt, torrents |-> tor]
    ELSE IF ~implied_port /\ port = None
    THEN [result |-> Err("InsufficientAddress"), rt |-> rt, torrents |-> tor]
    ELSE
        \* from.set_port(actual_port) changes from itself: addr and the origin given
        \* to record_request are the same value
        LET from_now == IF implied_port THEN from ELSE <<from[1], port[1]>>
            addr == from_now
            rec == record_request(rt, id, from_now, read_only)
        IN  Try(rec, tor,
                [result |-> Ok(OnlyId(rt.local_id)),
                 rt |-> rec.rt,
                 torrents |-> PushPeer(tor, info_hash, addr)])

\* Error::as_request_error: every handler error is sent with code 201.
as_request_error(kind) == [code |-> 201, text |-> kind]

\* The match on request.query, lines 35-58.
handle_query(rt, tor, req, from) ==
    LET q == req.query
    IN  CASE q.type = "ping" ->
                handle_ping(rt, tor, from, q.id, req.read_only)
          [] q.type = "find_node" ->
                handle_find_node(rt, tor, from, q.id, q.target, req.read_only)
          [] q.type = "get_peers" ->
                handle_get_peers(rt, tor, from, q.id, q.info_hash, req.read_only)
          [] q.type = "announce_peer" ->
                handle_announce_peer(rt, tor, from, q.id, q.implied_port, q.port,
                                     q.info_hash, q.token, req.read_only)
          [] OTHER ->
                [result |-> Err("UnimplementedRequestType"), rt |-> rt, torrents |-> tor]

\* The match on the result, lines 60-65.
message_type_of(result) ==
    IF result.ok
    THEN [type |-> "Response", response |-> result.response]
    ELSE [type |-> "Error", error |-> as_request_error(result.error)]

\* handle_request that numbers its replies itself.
handle_request_own_id(rt, tor, req, from) ==
    LET out == handle_query(rt, tor, req, from)
    IN  [message |-> [ip |-> None,
                      transaction_id |-> 1,
                      version |-> None,
                      message_type |-> message_type_of(out.result),
                      read_only |-> FALSE],
         rt |-> out.rt,
         torrents |-> out.torrents]

\* Dht::handle_request: the reply Message and the stores afterwards.
handle_request(rt, tor, req, from) ==
    LET out == handle_query(rt, tor, req, from)
    IN  [message |-> [ip |-> None,
                      transaction_id |-> req.transaction_id,
                      version |-> None,
                      message_type |-> message_type_of(out.result),
                      read_only |-> FALSE],
         rt |-> out.rt,
         torrents |-> out.torrents]

(***************************************************************************)
(* The requests the stream can produce.                                      *)
(***************************************************************************)
TotalPeers(tor) ==
    LET RECURSIVE Sum(_)
        Sum(S) == IF S = {} THEN 0
                  ELSE LET h == CHOOSE x \in S : TRUE
                       IN  Len(tor[h]) + Sum(S \ {h})
    IN  Sum(DOMAIN tor)

\* A caller can present the zero token or the token kept from a get_peers reply.
KnownTokens == {ZeroToken, held}

Queries(id) ==
    [type : {"ping"}, id : {id}]
    \cup [type : {"find_node"}, id : {id}, target : Targets]
    \cup [type : {"get_peers"}, id : {id}, info_hash : InfoHashes]
    \cup [type : {"announce_peer"}, id : {id}, implied_port : BOOLEAN,
          port : AnnouncePorts, info_hash : InfoHashes, token : KnownTokens]
    \cup [type : {"sample_infohashes"}, id : {id}]

Requests(c) ==
    [transaction_id : {c.transaction_id}, version : {None}, read_only : BOOLEAN,
     query : Queries(c.id)]

\* The tokens a reply carries.
TokensOf(message) ==
    IF /\ message.message_type.type = "Response"
       /\ message.message_type.response.type \in {"NextHop", "GetPeers"}
       /\ message.message_type.response.token # None
    THEN {message.message_type.response.token[1]}
    ELSE {}

(***************************************************************************)
(* Dht::handle_requests: the stream yields an item, handle_request answers  *)
(* it, send_transport.send sends the answer.                                 *)
(***************************************************************************)
HandlerInit ==
    /\ routing_table = NewRoutingTable(0)
    /\ torrents = <<>>
    /\ now = 0
    /\ handler_pc = "idle"
    /\ request = None
    /\ reply = None
    /\ held = ZeroToken
    /\ changed = FALSE

\* The stream yields a datagram that decoded into a request; its origin is an
\* IPv4 or an IPv6 socket address.
StreamNext ==
    /\ handler_pc = "idle"
    /\ \E c \in Callers : \E req \in Requests(c) : \E family \in FamiliesOf(c) :
        /\ req.query.type = "announce_peer" => TotalPeers(torrents) < MaxPeers
        /\ request' = Some([request |-> req, from |-> c.from, family |-> family])
    /\ handler_pc' = "pending"
    /\ UNCHANGED <<routing_table, torrents, now, reply, held, changed>>

\* The stream yields an error (receive or decode failure) in place of an item.
StreamError ==
    /\ handler_pc = "idle"
    /\ handler_pc' = "failed"
    /\ UNCHANGED <<routing_table, torrents, now, request, reply, held, changed>>

\* from.into_v4()? and then handle_request: an origin that is not IPv4 ends the
\* closure with UnsupportedAddressFamily before handle_request is called.
HandleRequest ==
    /\ handler_pc = "pending"
    /\ IF request[1].family # "v4"
       THEN /\ handler_pc' = "failed"
            /\ request' = None
            /\ UNCHANGED <<routing_table, torrents, reply, changed>>
       ELSE LET out == handle_request(routing_table, torrents,
                                      request[1].request, request[1].from)
            IN  /\ routing_table' = out.rt
                /\ torrents' = out.torrents
                /\ reply' = Some(out.message)
                /\ changed' = (out.rt # routing_table \/ out.torrents # torrents)
                /\ handler_pc' = "replied"
                /\ UNCHANGED request
    /\ UNCHANGED <<now, held>>

\* send_transport.send(from, response): the reply leaves, and whoever sees a token
\* in it may keep that token in place of the one kept so far.
SendReply ==
    /\ handler_pc = "replied"
    /\ handler_pc' = "idle"
    /\ request' = None
    /\ reply' = None
    /\ held' \in {held} \cup TokensOf(reply[1])
    /\ changed' = FALSE
    /\ UNCHANGED <<routing_table, torrents, now>>

\* send_transport.send(from, response) fails: the reply does not leave.
SendReplyFails ==
    /\ handler_pc = "replied"
    /\ handler_pc' = "failed"
    /\ request' = None
    /\ reply' = None
    /\ changed' = FALSE
    /\ UNCHANGED <<routing_table, torrents, now, held>>

\* Without or_else the error ends the stream, and the loop with it.
ErrorEndsLoop ==
    /\ handler_pc = "failed"
    /\ handler_pc' = "stopped"
    /\ UNCHANGED <<routing_table, torrents, now, request, reply, held, changed>>

\* or_else, lines 26-30: the error is printed and replaced by Ok(()), so that
\* the stream goes on with the next item.
LogError ==
    /\ handler_pc = "failed"
    /\ handler_pc' = "idle"
    /\ UNCHANGED <<routing_table, torrents, now, request, reply, held, changed>>

\* The rotation timer fires: one rotation period has passed on the clock.
RotateSecret ==
    /\ handler_pc = "idle"
    /\ now < MaxRotations
    /\ routing_table' = rotate_secret(routing_table)
    /\ now' = now + 1
    /\ UNCHANGED <<torrents, handler_pc, request, reply, held, changed>>

(***************************************************************************)
(* The transaction map (peer::inbound, peer::response), after the           *)
(* specification 4.4 and 4.5.                                                *)
(***************************************************************************)
AwaitingResponse(task) == [state |-> "AwaitingResponse", task |-> task]
GotResponse(envelope) == [state |-> "GotResponse", envelope |-> envelope]

\* HashMap::insert: the entry of id is set, whatever was there.
MapInsert(map, id, value) ==
    [k \in DOMAIN map \cup {id} |-> IF k = id THEN value ELSE map[k]]

\* HashMap::remove
MapRemove(map, id) == [k \in DOMAIN map \ {id} |-> map[k]]

\* deliver(id, envelope): an awaiting entry takes the response; the map is left
\* alone otherwise.
deliver(map, id, envelope) ==
    IF id \in DOMAIN map /\ map[id].state = "AwaitingResponse"
    THEN MapInsert(map, id, GotResponse(envelope))
    ELSE map

(***************************************************************************)
(* Peer::request, src/src/peer/peer.rs:55-87, for each of NumRequests       *)
(* calls, with the remote node and the receive side of the socket.          *)
(***************************************************************************)
PeerInit ==
    /\ transactions = <<>>
    /\ req_pc = [r \in 1 .. NumRequests |-> "new"]
    /\ req_tid = [r \in 1 .. NumRequests |-> 0]
    /\ to_remote = {}
    /\ from_remote = {}
    /\ dropped = {}

\* Peer::build_request: a random transaction id.
BuildRequest(r) ==
    /\ req_pc[r] = "new"
    /\ \E id \in TxIds : req_tid' = [req_tid EXCEPT ![r] = id]
    /\ req_pc' = [req_pc EXCEPT ![r] = "built"]
    /\ UNCHANGED <<transactions, to_remote, from_remote, dropped>>

\* The registration of send_request, lines 80-84.
register(map, id) == MapInsert(map, id, AwaitingResponse(None))

\* send_request, lines 76-78: send_socket.send_to puts the datagram on the wire.
SendTo(r) ==
    /\ req_pc[r] = "built"
    /\ to_remote' = to_remote \cup {[transaction_id |-> req_tid[r], call |-> r]}
    /\ req_pc' = [req_pc EXCEPT ![r] = "sent"]
    /\ UNCHANGED <<transactions, req_tid, from_remote, dropped>>

\* send_request, lines 76-78: send_to fails, the request ends with SendError.
SendFails(r) ==
    /\ req_pc[r] = "built"
    /\ req_pc' = [req_pc EXCEPT ![r] = "send_error"]
    /\ UNCHANGED <<transactions, req_tid, to_remote, from_remote, dropped>>

\* send_request, lines 80-84: after the send, the id enters the transaction map.
Register(r) ==
    /\ req_pc[r] = "sent"
    /\ transactions' = register(transactions, req_tid[r])
    /\ req_pc' = [req_pc EXCEPT ![r] = "awaiting"]
    /\ UNCHANGED <<req_tid, to_remote, from_remote, dropped>>

\* ResponseFuture::poll, polled by request() once send_request has returned.
PollResponse(r) ==
    /\ req_pc[r] = "awaiting"
    /\ LET id == req_tid[r] IN
        IF id \notin DOMAIN transactions
        THEN /\ req_pc' = [req_pc EXCEPT ![r] = "no_transaction"]
             /\ UNCHANGED transactions
        ELSE IF transactions[id].state = "GotResponse"
        THEN /\ req_pc' = [req_pc EXCEPT ![r] = "done"]
             /\ transactions' = MapRemove(transactions, id)
        ELSE /\ transactions[id].task # Some(r)
             /\ transactions' = MapInsert(transactions, id, AwaitingResponse(Some(r)))
             /\ UNCHANGED req_pc
    /\ UNCHANGED <<req_tid, to_remote, from_remote, dropped>>

\* The remote node answers a request datagram.
RemoteResponds ==
    \E d \in to_remote :
        /\ to_remote' = to_remote \ {d}
        /\ from_remote' = from_remote \cup {d}
        /\ UNCHANGED <<transactions, req_pc, req_tid, dropped>>

\* The receive side takes a response off the socket: delivered when its id is in
\* the transaction map, dropped when it is not.
ReceiveResponse ==
    \E d \in from_remote :
        /\ from_remote' = from_remote \ {d}
        /\ transactions' = deliver(transactions, d.transaction_id, d.call)
        /\ dropped' = IF d.transaction_id \in DOMAIN transactions
                      THEN dropped ELSE dropped \cup {d.call}
        /\ UNCHANGED <<req_pc, req_tid, to_remote>>

\* cancel(id): the entry of id leaves the map.
cancel(map, id) == MapRemove(map, id)

\* The per-transaction timeout without its cancel.
TimeoutKeepsEntry(r) ==
    /\ req_pc[r] = "awaiting"
    /\ req_pc' = [req_pc EXCEPT ![r] = "request_timeout"]
    /\ UNCHANGED <<transactions, req_tid, to_remote, from_remote, dropped>>

\* The per-transaction timeout expires while the call waits: the transaction is
\* cancelled and the call ends with RequestTimeout.
Timeout(r) ==
    /\ req_pc[r] = "awaiting"
    /\ transactions' = cancel(transactions, req_tid[r])
    /\ req_pc' = [req_pc EXCEPT ![r] = "request_timeout"]
    /\ UNCHANGED <<req_tid, to_remote, from_remote, dropped>>

NextPeer ==
    \/ \E r \in 1 .. NumRequests : BuildRequest(r) /\ UNCHANGED <<handler_vars, bootstrap_vars, lock_vars>>
    \/ \E r \in 1 .. NumRequests : SendTo(r) /\ UNCHANGED <<handler_vars, bootstrap_vars, lock_vars>>
    \/ \E r \in 1 .. NumRequests : SendFails(r) /\ UNCHANGED <<handler_vars, bootstrap_vars, lock_vars>>
    \/ \E r \in 1 .. NumRequests : Register(r) /\ UNCHANGED <<handler_vars, bootstrap_vars, lock_vars>>
    \/ \E r \in 1 .. NumRequests : PollResponse(r) /\ UNCHANGED <<handler_vars, bootstrap_vars, lock_vars>>
    \/ \E r \in 1 .. NumRequests : Timeout(r) /\ UNCHANGED <<handler_vars, bootstrap_vars, lock_vars>>
    \/ (RemoteResponds /\ UNCHANGED <<handler_vars, bootstrap_vars, lock_vars>>)
    \/ (ReceiveResponse /\ UNCHANGED <<handler_vars, bootstrap_vars, lock_vars>>)

(***************************************************************************)
(* Dht::bootstrap_routing_table, src/src/dht/mod.rs:48-75: one ping future  *)
(* per seed, joined by future::join_all.                                     *)
(***************************************************************************)
\* The address of seed i, and the ids a seed may answer with.
SeedAddr(i) == <<3, i>>
SeedIds == {2, 3}

BootstrapInit ==
    /\ ping_state = [i \in 1 .. NumSeeds |-> "pending"]
    /\ ping_id = [i \in 1 .. NumSeeds |-> None]
    /\ bootstrap = "pending"

\* The ping of seed i is answered: its future is ready with the NodeID.
PingAnswered(i) ==
    /\ ping_state[i] = "pending"
    /\ ping_state' = [ping_state EXCEPT ![i] = "answered"]
    /\ \E id \in SeedIds : ping_id' = [ping_id EXCEPT ![i] = Some(id)]
    /\ UNCHANGED <<bootstrap, routing_table>>

\* The ping of seed i fails (send error, error reply, malformed reply).
PingFails(i) ==
    /\ ping_state[i] = "pending"
    /\ ping_state' = [ping_state EXCEPT ![i] = "failed"]
    /\ UNCHANGED <<bootstrap, ping_id, routing_table>>

\* The closure without node.mark_successful_request().
bootstrap_insert_unmarked(rt, id, addr) ==
    add_node(rt, NewNode(id, addr))

\* The and_then closure of lines 61-69 for an answered ping.
bootstrap_insert(rt, id, addr) ==
    add_node(rt, mark_successful_request(NewNode(id, addr)))

\* JoinAll::poll over the elements from index i on: each ready element is taken
\* in turn; the first failed one drops every element that is not done and ends
\* the poll with its error.
RECURSIVE join_all_poll(_, _, _)
join_all_poll(i, states, rt) ==
    IF i > NumSeeds
    THEN [states |-> states, rt |-> rt,
          result |-> IF \A j \in 1 .. NumSeeds : states[j] = "inserted"
                     THEN "ok" ELSE "pending"]
    ELSE IF states[i] = "failed"
    THEN [states |-> [j \in 1 .. NumSeeds |->
                        IF states[j] \in {"pending", "answered"} THEN "cancelled"
                        ELSE states[j]],
          rt |-> rt,
          result |-> "err"]
    ELSE IF states[i] = "answered"
    THEN join_all_poll(i + 1, [states EXCEPT ![i] = "inserted"],
                       bootstrap_insert(rt, ping_id[i][1], SeedAddr(i)))
    ELSE join_all_poll(i + 1, states, rt)

\* The executor polls the bootstrap future after one of its pings became ready.
PollBootstrap ==
    /\ bootstrap = "pending"
    /\ \E i \in 1 .. NumSeeds : ping_state[i] \in {"answered", "failed"}
    /\ LET out == join_all_poll(1, ping_state, routing_table)
       IN  /\ ping_state' = out.states
           /\ routing_table' = out.rt
           /\ bootstrap' = out.result
    /\ UNCHANGED ping_id

bootstrap_rest == <<torrents, now, handler_pc, request, reply, held, changed>>

NextBootstrap ==
    \/ \E i \in 1 .. NumSeeds : PingAnswered(i) /\ UNCHANGED <<bootstrap_rest, peer_vars, lock_vars>>
    \/ \E i \in 1 .. NumSeeds : PingFails(i) /\ UNCHANGED <<bootstrap_rest, peer_vars, lock_vars>>
    \/ (PollBootstrap /\ UNCHANGED <<bootstrap_rest, peer_vars, lock_vars>>)

(***************************************************************************)
(* The mutexes: routing_table and torrents of Dht (src/src/dht/mod.rs:17-23) *)
(* and transactions of Peer (src/src/peer/peer.rs:23-31).  Each thread of    *)
(* the runtime runs one handler, or the ping and insertion of one seed, at   *)
(* a time; a run is the sequence of its lock() calls and guard drops.        *)
(***************************************************************************)
Locks == {"routing_table", "torrents", "transactions"}
Threads == 1 .. NumThreads

Acquire(l) == <<"lock", l>>
Release(l) == <<"drop", l>>

Runs == {"handle_ping", "handle_find_node", "handle_get_peers",
         "handle_announce_peer", "handle_announce_peer_rejected", "bootstrap_ping"}

\* handle_announce_peer taking the peer store before the routing table.
LockPlanPeersFirst(run) ==
    CASE run \in {"handle_ping", "handle_find_node", "handle_announce_peer_rejected"} ->
            <<Acquire("routing_table"), Release("routing_table")>>
      [] run = "handle_get_peers" ->
            <<Acquire("routing_table"), Acquire("torrents"),
              Release("torrents"), Release("routing_table")>>
      [] run = "handle_announce_peer" ->
            <<Acquire("torrents"), Acquire("routing_table"),
              Release("routing_table"), Release("torrents")>>
      [] run = "bootstrap_ping" ->
            <<Acquire("transactions"), Release("transactions"),
              Acquire("routing_table"), Release("routing_table")>>

\* The lock() calls of each run in program order; the guards are locals of the
\* handler and are dropped at its return, the last one taken first.
\* handle_announce_peer_rejected is the return with InvalidToken or
\* InsufficientAddress, before the peer store is locked; bootstrap_ping is the
\* registration of the ping's transaction followed by the and_then closure.
LockPlan(run) ==
    CASE run \in {"handle_ping", "handle_find_node", "handle_announce_peer_rejected"} ->
            <<Acquire("routing_table"), Release("routing_table")>>
      [] run \in {"handle_get_peers", "handle_announce_peer"} ->
            <<Acquire("routing_table"), Acquire("torrents"),
              Release("torrents"), Release("routing_table")>>
      [] run = "bootstrap_ping" ->
            <<Acquire("transactions"), Release("transactions"),
              Acquire("routing_table"), Release("routing_table")>>

LockInit ==
    /\ lock_owner = [l \in Locks |-> 0]
    /\ th_op = [t \in Threads |-> "none"]
    /\ th_at = [t \in Threads |-> 0]

\* The step thread t is about to take, <<>> when it has none.
StepOf(t) ==
    IF th_op[t] # "none" /\ th_at[t] <= Len(LockPlan(th_op[t]))
    THEN LockPlan(th_op[t])[th_at[t]]
    ELSE <<>>

\* A thread picks up a request or a seed.
Begin(t) ==
    /\ th_op[t] = "none"
    /\ \E run \in Runs : th_op' = [th_op EXCEPT ![t] = run]
    /\ th_at' = [th_at EXCEPT ![t] = 1]
    /\ UNCHANGED lock_owner

\* Mutex::lock: the thread goes on once the mutex is free, and holds it.
Lock(t) ==
    /\ StepOf(t) # <<>>
    /\ StepOf(t)[1] = "lock"
    /\ lock_owner[StepOf(t)[2]] = 0
    /\ lock_owner' = [lock_owner EXCEPT ![StepOf(t)[2]] = t]
    /\ th_at' = [th_at EXCEPT ![t] = @ + 1]
    /\ UNCHANGED th_op

\* The guard is dropped.
Drop(t) ==
    /\ StepOf(t) # <<>>
    /\ StepOf(t)[1] = "drop"
    /\ lock_owner' = [lock_owner EXCEPT ![StepOf(t)[2]] = 0]
    /\ th_at' = [th_at EXCEPT ![t] = @ + 1]
    /\ UNCHANGED th_op

\* The run is over.
Return(t) ==
    /\ th_op[t] # "none"
    /\ th_at[t] > Len(LockPlan(th_op[t]))
    /\ th_op' = [th_op EXCEPT ![t] = "none"]
    /\ th_at' = [th_at EXCEPT ![t] = 0]
    /\ UNCHANGED lock_owner

NextLocks ==
    \/ \E t \in Threads : Begin(t) /\ UNCHANGED <<handler_vars, peer_vars, bootstrap_vars>>
    \/ \E t \in Threads : Lock(t) /\ UNCHANGED <<handler_vars, peer_vars, bootstrap_vars>>
    \/ \E t \in Threads : Drop(t) /\ UNCHANGED <<handler_vars, peer_vars, bootstrap_vars>>
    \/ \E t \in Threads : Return(t) /\ UNCHANGED <<handler_vars, peer_vars, bootstrap_vars>>

Init == HandlerInit /\ PeerInit /\ BootstrapInit /\ LockInit

Next ==
    \/ (StreamNext /\ UNCHANGED <<peer_vars, bootstrap_vars, lock_vars>>)
    \/ (HandleRequest /\ UNCHANGED <<peer_vars, bootstrap_vars, lock_vars>>)
    \/ (SendReply /\ UNCHANGED <<peer_vars, bootstrap_vars, lock_vars>>)
    \/ (StreamError /\ UNCHANGED <<peer_vars, bootstrap_vars, lock_vars>>)
    \/ (SendReplyFails /\ UNCHANGED <<peer_vars, bootstrap_vars, lock_vars>>)
    \/ (LogError /\ UNCHANGED <<peer_vars, bootstrap_vars, lock_vars>>)
    \/ (RotateSecret /\ UNCHANGED <<peer_vars, bootstrap_vars, lock_vars>>)

Spec == Init /\ [][Next]_vars

SpecPeer == Init /\ [][NextPeer]_vars

\* The timer of every waiting call fires unless the call completes before.
SpecPeerFair ==
    /\ SpecPeer
    /\ \A r \in 1 .. NumRequests :
          WF_vars(Timeout(r) /\ UNCHANGED <<handler_vars, bootstrap_vars, lock_vars>>)

SpecBootstrap == Init /\ [][NextBootstrap]_vars

SpecLocks == Init /\ [][NextLocks]_vars

(***************************************************************************)
(* Claims.  A handler step is the step of HandleRequest: the request is the *)
(* one pending before it, the reply the one present after it.               *)
(***************************************************************************)
HandlerStep == handler_pc = "pending" /\ handler_pc' = "replied"
Req == request[1].request
Qry == request[1].request.query
From == request[1].from
Replied == handler_pc = "replied"
IsResponse(message) == message.message_type.type = "Response"
IsError(message, kind) ==
    /\ message.message_type.type = "Error"
    /\ message.message_type.error = [code |-> 201, text |-> kind]
PeersOf(tor, h) == IF h \in DOMAIN tor THEN tor[h] ELSE <<>>
Elems(s) == {s[i] : i \in DOMAIN s}

\* C1: no response to a request that was sent is processed by the receive side
\* while the request's transaction id is still absent from the transaction map.
C1_RegisteredBeforeSend ==
    \A r \in dropped : req_pc[r] # "sent"

\* C2: the bootstrap future resolves only once every ping has terminated, a
\* failed ping does not make it fail, and no answered seed is left uninserted.
C2_BootstrapWaitsForAllPings ==
    /\ bootstrap # "pending" =>
            \A i \in 1 .. NumSeeds : ping_state[i] \in {"inserted", "failed"}
    /\ bootstrap # "err"
    /\ \A i \in 1 .. NumSeeds : ping_id[i] # None => ping_state[i] # "cancelled"

\* C3: a request with read_only = true, of any query type, leaves the routing
\* table as it was, and is answered as the query alone decides: a response for
\* ping, find_node and get_peers, and for announce_peer a response exactly when
\* the token verifies and an address can be computed.
C3_ReadOnlyKeepsRoutingTable ==
    [][(HandlerStep /\ Req.read_only /\
            Qry.type \in {"ping", "find_node", "get_peers", "announce_peer"}) =>
        /\ routing_table' = routing_table
        /\ reply'[1].transaction_id = Req.transaction_id
        /\ Qry.type = "ping" =>
                reply'[1].message_type =
                    [type |-> "Response", response |-> OnlyId(routing_table.local_id)]
        /\ Qry.type \in {"find_node", "get_peers"} => IsResponse(reply'[1])
        /\ Qry.type = "announce_peer" =>
                (IsResponse(reply'[1]) <=>
                    /\ verify_token(routing_table, Qry.token, From)
                    /\ (Qry.implied_port \/ Qry.port # None))]_vars

\* A read-only ping was answered while its caller, known from an earlier period,
\* kept the timestamp of that period.
C3_Witness ==
    /\ Replied
    /\ Req.read_only
    /\ Qry.type = "ping"
    /\ IsResponse(reply[1])
    /\ HasNode(routing_table, Qry.id)
    /\ NodeOf(routing_table, Qry.id).last_request_received # Some(now)

\* C4: every query with read_only = false has its caller recorded in the routing
\* table (when the bucket has room), whatever the answer, errors of
\* announce_peer included.
C4_CallerRecordedBeforeQuery ==
    [][(HandlerStep /\ ~Req.read_only /\
            Qry.type \in {"ping", "find_node", "get_peers", "announce_peer"} /\
            get_or_add(routing_table, Qry.id, From).ok) =>
        /\ HasNode(routing_table', Qry.id)
        /\ NodeOf(routing_table', Qry.id).last_request_received = Some(now)]_vars

\* C5: an announce_peer whose token does not verify for the caller's address is
\* answered with the InvalidToken error and leaves the peer store unchanged.
C5_InvalidTokenKeepsPeerStore ==
    [][(HandlerStep /\ Qry.type = "announce_peer" /\
            ~verify_token(routing_table, Qry.token, From)) =>
        /\ IsError(reply'[1], "InvalidToken")
        /\ torrents' = torrents]_vars

\* An announce_peer carrying a token that a get_peers reply did issue, but that
\* does not verify for this caller now, was answered with InvalidToken.
C5_Witness ==
    /\ Replied
    /\ Qry.type = "announce_peer"
    /\ Qry.token # ZeroToken
    /\ IsError(reply[1], "InvalidToken")
    /\ torrents # <<>>

\* C6: a successful announce_peer with implied_port appends the caller's origin
\* address to the list of info_hash exactly once: that list grows by that one
\* element and every other list is unchanged.
C6_ImpliedPortAppendsOriginOnce ==
    [][(HandlerStep /\ Qry.type = "announce_peer" /\ Qry.implied_port /\
            IsResponse(reply'[1])) =>
        /\ DOMAIN torrents' = DOMAIN torrents \cup {Qry.info_hash}
        /\ torrents'[Qry.info_hash] = Append(PeersOf(torrents, Qry.info_hash), From)
        /\ \A h \in DOMAIN torrents : h # Qry.info_hash => torrents'[h] = torrents[h]]_vars

\* An implied-port announce that carried a port field was appended to a list that
\* already held an address, while another info_hash has a list too.
C6_Witness ==
    /\ Replied
    /\ Qry.type = "announce_peer"
    /\ Qry.implied_port
    /\ Qry.port # None
    /\ IsResponse(reply[1])
    /\ Len(torrents[Qry.info_hash]) = 1
    /\ DOMAIN torrents # {Qry.info_hash}

\* C7: with a valid token the address stored is the caller's (ip, source port) when
\* implied_port is set, whatever the port field; else (caller ip, port) when port
\* is present; else the call fails with InsufficientAddress and stores nothing.
C7_EffectiveAddress ==
    [][(HandlerStep /\ Qry.type = "announce_peer" /\
            verify_token(routing_table, Qry.token, From)) =>
        LET old == PeersOf(torrents, Qry.info_hash)
            new == PeersOf(torrents', Qry.info_hash)
        IN  IF Qry.implied_port
            THEN IsResponse(reply'[1]) /\ new = Append(old, From)
            ELSE IF Qry.port # None
            THEN IsResponse(reply'[1]) /\ new = Append(old, <<From[1], Qry.port[1]>>)
            ELSE IsError(reply'[1], "InsufficientAddress") /\ torrents' = torrents]_vars

\* An announce without implied_port stored a port that is not the source port.
C7_Witness ==
    /\ Replied
    /\ Qry.type = "announce_peer"
    /\ ~Qry.implied_port
    /\ Qry.port # None
    /\ Qry.port[1] # From[2]
    /\ IsResponse(reply[1])
    /\ torrents[Qry.info_hash][Len(torrents[Qry.info_hash])] = <<From[1], Qry.port[1]>>

\* C8: a token that a get_peers reply gave to address A less than two rotations
\* ago makes an implied-port announce_peer from A succeed and store A; an address
\* once stored stays stored; and every get_peers for an info_hash with stored
\* addresses is answered with GetPeers carrying all of them.  Together: after the
\* announce, every later get_peers(IH) from any node returns A among its peers.
C8_AnnounceThenGetPeers ==
    [][/\ (HandlerStep /\ Qry.type = "announce_peer" /\ Qry.implied_port /\
                Qry.token = held /\ held # ZeroToken /\
                <<held[2], held[3]>> = From /\
                routing_table.token_secret - held[1] < 2) =>
            /\ IsResponse(reply'[1])
            /\ From \in Elems(torrents'[Qry.info_hash])
       /\ \A h \in DOMAIN torrents :
            h \in DOMAIN torrents' /\ Elems(torrents[h]) \subseteq Elems(torrents'[h])
       /\ (HandlerStep /\ Qry.type = "get_peers" /\ Qry.info_hash \in DOMAIN torrents) =>
            /\ IsResponse(reply'[1])
            /\ reply'[1].message_type.response.type = "GetPeers"
            /\ Elems(torrents[Qry.info_hash]) \subseteq
                    Elems(reply'[1].message_type.response.peers)]_vars

\* After a rotation, a get_peers was answered with GetPeers carrying an address
\* other than its caller's, stored by an earlier announce.
C8_Witness ==
    /\ Replied
    /\ Qry.type = "get_peers"
    /\ reply[1].message_type.response.type = "GetPeers"
    /\ now > 0
    /\ \E a \in Elems(reply[1].message_type.response.peers) : a # From

\* C9: an announce_peer from origin A changes the peer store only if the token it
\* carries was issued by a get_peers reply to that same origin A under the current
\* or the previous secret; a token issued to another address never does.
C9_TokenBoundToOrigin ==
    [][(HandlerStep /\ Qry.type = "announce_peer" /\ torrents' # torrents) =>
        /\ Qry.token = held
        /\ held # ZeroToken
        /\ <<held[2], held[3]>> = From
        /\ held[1] \in {routing_table.token_secret, routing_table.token_secret_previous}]_vars

\* An announce was accepted with a token of the previous secret, issued to the
\* announcing address.
C9_Witness ==
    /\ Replied
    /\ Qry.type = "announce_peer"
    /\ IsResponse(reply[1])
    /\ Qry.token[1] = routing_table.token_secret_previous
    /\ <<Qry.token[2], Qry.token[3]>> = From

\* C10: a get_peers reply carries a token generated for the caller's address; it
\* is GetPeers{local_id, token, peers} with every stored peer of info_hash in
\* insertion order exactly when the peer store has an entry for info_hash, and
\* NextHop{local_id, token, find_nodes(info_hash)} otherwise.
C10_GetPeersReply ==
    [][(HandlerStep /\ Qry.type = "get_peers") =>
        LET token == Some(generate_token(routing_table', From))
        IN  reply'[1].message_type =
                [type |-> "Response",
                 response |->
                    IF Qry.info_hash \in DOMAIN torrents
                    THEN GetPeers(routing_table.local_id, token, torrents[Qry.info_hash])
                    ELSE NextHop(routing_table.local_id, token,
                                 find_nodes(routing_table', Qry.info_hash))]]_vars

\* A get_peers was answered with two different peers, stored in that order.
C10_Witness ==
    /\ Replied
    /\ Qry.type = "get_peers"
    /\ reply[1].message_type.response.type = "GetPeers"
    /\ Len(reply[1].message_type.response.peers) = 2
    /\ reply[1].message_type.response.peers[1] # reply[1].message_type.response.peers[2]
    /\ reply[1].message_type.response.token = Some(Hash(routing_table.token_secret, From))

(***************************************************************************)
(* C11  Registering an id that the transaction map already holds leaves    *)
(*      the entry of that id as it was, and the registering call ends with  *)
(*      DuplicateTransaction instead of waiting for a response.             *)
(***************************************************************************)
C11_DuplicateRegistrationRejected ==
    [][\A r \in 1 .. NumRequests :
          (/\ req_pc[r] = "sent"
           /\ req_pc'[r] # "sent"
           /\ req_tid[r] \in DOMAIN transactions)
          => /\ transactions'[req_tid[r]] = transactions[req_tid[r]]
             /\ req_pc'[r] = "duplicate_transaction"]_vars

(***************************************************************************)
(* C12  A call that waits for a response does not wait forever: it          *)
(*      completes, and with RequestTimeout when nothing else completes it;   *)
(*      the step that completes it with RequestTimeout leaves no entry for   *)
(*      its transaction id in the map.                                       *)
(***************************************************************************)
Completed == {"done", "request_timeout", "no_transaction"}

StoresUnchanged == routing_table' = routing_table /\ torrents' = torrents

C13_LoopSurvivesFailure ==
    [][/\ handler_pc' \in {"idle", "pending", "replied", "failed"}
       /\ handler_pc = "failed" => (handler_pc' = "idle" /\ StoresUnchanged)
       /\ handler_pc' = "failed" => (reply' = None /\ StoresUnchanged)
       /\ (handler_pc' = "failed" /\ handler_pc \in {"idle", "pending"}) => ~changed
       /\ handler_pc = "idle" => ENABLED StreamNext]_vars

\* C13 as stated: every failing item, the one whose reply could not be sent
\* included, has changed neither store.
C13_FailedRequestChangesNothing ==
    [][/\ handler_pc' \in {"idle", "pending", "replied", "failed"}
       /\ handler_pc = "failed" => (handler_pc' = "idle" /\ StoresUnchanged)
       /\ handler_pc' = "failed" => (reply' = None /\ StoresUnchanged /\ ~changed)]_vars

\* An item has just failed, after earlier items were handled, and the loop is
\* about to go on.
C13_Witness ==
    /\ handler_pc = "failed"
    /\ request = None /\ reply = None
    /\ RoutingLen(routing_table) > 0
    /\ torrents # <<>>

(***************************************************************************)
(* C14  Every reply handle_request produces, a Response as well as an       *)
(*      Error and for every type of query, carries the transaction id of    *)
(*      the request it answers and read_only = false.                        *)
(***************************************************************************)
C14_ReplyEchoesTransactionId ==
    Replied =>
        /\ reply[1].transaction_id = Req.transaction_id
        /\ reply[1].read_only = FALSE

\* An Error reply to a request of transaction id 2 that was itself read-only.
C14_Witness ==
    /\ Replied
    /\ Req.transaction_id = 2
    /\ Req.read_only
    /\ reply[1].message_type.type = "Error"

(***************************************************************************)
(* C15  handle_find_node replies NextHop with the local id, no token and    *)
(*      nodes of the routing table as it is after the caller was recorded:  *)
(*      the one node whose id is the target when there is one, at most K    *)
(*      nodes in ascending XOR distance to the target otherwise.  A caller  *)
(*      that is not read-only and asks for its own id receives itself as    *)
(*      the single node whenever get_or_add could record it.                *)
(***************************************************************************)
Ascending(nodes, target) ==
    \A i, j \in DOMAIN nodes :
        i < j => distance(nodes[i].id, target) <= distance(nodes[j].id, target)

\* The shape of a find_node reply over the table rt it was taken from.
FindNodeReply(message, rt, target) ==
    /\ IsResponse(message)
    /\ LET response == message.message_type.response
       IN  /\ response.type = "NextHop"
           /\ response.id = rt.local_id
           /\ response.token = None
           /\ Elems(response.nodes) \subseteq NodeSet(rt)
           /\ HasNode(rt, target) => response.nodes = <<NodeOf(rt, target)>>
           /\ ~HasNode(rt, target) =>
                 /\ Len(response.nodes) <= K
                 /\ Ascending(response.nodes, target)

ReceivesItself(message) ==
    /\ Len(message.message_type.response.nodes) = 1
    /\ message.message_type.response.nodes[1].id = Qry.id

C16_RecordedAtOrigin ==
    [][(/\ HandlerStep
        /\ ~Req.read_only
        /\ ~HasNode(routing_table, Qry.id)
        /\ HasNode(routing_table', Qry.id))
       => NodeOf(routing_table', Qry.id).address = From]_vars

(***************************************************************************)
(* C17  No thread asks for the routing-table lock while it holds the       *)
(*      peer-store lock; no thread holds or asks for the transaction-map    *)
(*      lock together with one of the other two; and no set of threads is   *)
(*      ever deadlocked, each waiting for a lock that another of the set    *)
(*      holds.                                                               *)
(***************************************************************************)
Holds(t) == {l \in Locks : lock_owner[l] = t}
Wants(t) == IF StepOf(t) # <<>> /\ StepOf(t)[1] = "lock" THEN {StepOf(t)[2]} ELSE {}

Deadlocked(S) == \A t \in S : \E l \in Wants(t) : lock_owner[l] \in S

C17_LockOrder ==
    /\ \A t \in Threads : "routing_table" \in Wants(t) => "torrents" \notin Holds(t)
    /\ \A t \in Threads :
          "transactions" \in Holds(t) \cup Wants(t) => Holds(t) \subseteq {"transactions"}
    /\ \A S \in SUBSET Threads : S # {} => ~Deadlocked(S)

\* One thread holds both the routing table and the peer store while another
\* waits for the routing table.
C17_Witness ==
    \E t, u \in Threads :
        /\ Holds(t) = {"routing_table", "torrents"}
        /\ "routing_table" \in Wants(u)

(***************************************************************************)
(* C18  When get_or_add fails for a caller that is not read-only (its       *)
(*      bucket is full), record_request still returns Ok: the routing       *)
(*      table keeps exactly the nodes and secrets it had, and the query is  *)
(*      answered as if the caller had been recorded: a ping with OnlyId, an *)
(*      announce_peer with a valid token and an address by appending the    *)
(*      peer and OnlyId.                                                     *)
(***************************************************************************)
BucketFull == ~Req.read_only /\ ~get_or_add(routing_table, Qry.id, From).ok

AnnounceValid ==
    /\ verify_token(routing_table, Qry.token, From)
    /\ Qry.implied_port \/ Qry.port # None

SeedNode(n, i) ==
    /\ ping_id[i] # None
    /\ n.id = ping_id[i][1]
    /\ n.address = SeedAddr(i)

C19_BootstrapInsertsSeeds ==
    bootstrap = "ok" =>
        /\ RoutingLen(routing_table) > 0
        /\ \A n \in NodeSet(routing_table) :
              /\ \E i \in 1 .. NumSeeds : SeedNode(n, i)
              /\ n.last_successful_request # None
              /\ n.state = "good"
        /\ \A i \in 1 .. NumSeeds :
              \/ HasNode(routing_table, ping_id[i][1])
              \/ ~get_or_add(routing_table, ping_id[i][1], SeedAddr(i)).ok

\* C19 as stated: every answered seed is in the table with its id and address.
C19_EverySeedInserted ==
    bootstrap = "ok" =>
        /\ RoutingLen(routing_table) > 0
        /\ \A i \in 1 .. NumSeeds :
              \E n \in NodeSet(routing_table) :
                  /\ SeedNode(n, i)
                  /\ n.last_successful_request # None

\* The bootstrap resolved successfully and the table holds a seed.
C19_Witness ==
    /\ bootstrap = "ok"
    /\ \E n \in NodeSet(routing_table) :
          SeedNode(n, 1) /\ n.last_successful_request # None

(***************************************************************************)
(* C20  The peer store only grows: it starts empty, every info-hash in it   *)
(*      maps to a list that is not empty, a step keeps every key and keeps  *)
(*      every list as a prefix of the list after it, and the only step that *)
(*      changes the store is an announce_peer answered with a Response,     *)
(*      which appends one peer to the list of its info-hash.                 *)
(***************************************************************************)
IsPrefix(s, t) == Len(s) <= Len(t) /\ \A i \in DOMAIN s : s[i] = t[i]

C20_PeerStoreOnlyGrows ==
    [][/\ \A h \in DOMAIN torrents' : torrents'[h] # <<>>
       /\ \A h \in DOMAIN torrents :
             h \in DOMAIN torrents' /\ IsPrefix(torrents[h], torrents'[h])
       /\ torrents' # torrents =>
             /\ HandlerStep
             /\ Qry.type = "announce_peer"
             /\ IsResponse(reply'[1])
             /\ \A h \in DOMAIN torrents' \ {Qry.info_hash} :
                   h \in DOMAIN torrents /\ torrents'[h] = torrents[h]
             /\ Len(torrents'[Qry.info_hash])
                  = Len(PeersOf(torrents, Qry.info_hash)) + 1]_vars

\* A get_peers was answered from a list of two different peers, kept in the
\* order of their announces, while the other info-hash has no entry.
C20_Witness ==
    /\ Replied
    /\ Qry.type = "get_peers"
    /\ DOMAIN torrents = {Qry.info_hash}
    /\ Len(torrents[Qry.info_hash]) = 2
    /\ torrents[Qry.info_hash][1] # torrents[Qry.info_hash][2]
====
